---- MODULE Spec2Model ----
(***************************************************************************)
(* Model of cdr_amqp.c: the AMQP CDR backend of Asterisk.                  *)
(*                                                                         *)
(* State: the global configuration holder `confs`, the reference-counted   *)
(* configuration objects (struct cdr_amqp_conf with its global section),   *)
(* the AMQP connection references they own, the module life-cycle thread   *)
(* (load_module / reload_module / unload_module, which the host runs one   *)
(* at a time) and the CDR threads that run amqp_cdr_log concurrently.      *)
(***************************************************************************)
EXTENDS Integers, Sequences, FiniteSets, TLC

(* ---------------------------------------------------------------- bounds *)

\* Number of configuration objects the allocator hands out before memory is
\* exhausted and ao2_alloc returns NULL.
MaxSnaps == 2

Snaps == 1..MaxSnaps
\* The connection reference obtained for configuration object s is named s.
Handles == Snaps
\* The CDR threads of the host that may be inside amqp_cdr_log at once.
Loggers == {"t1", "t2"}

NULL == 0

(* --------------------------------------------------------- configuration *)

OptionNames == {"loguniqueid", "loguserfield", "connection", "queue", "exchange"}

\* Defaults registered with aco_option_register.
OptionDefaults ==
  [loguniqueid |-> "no", loguserfield |-> "no", connection |-> "",
   queue |-> "asterisk_cdr", exchange |-> ""]

\* ast_true() as applied by the OPT_BOOL_T handler (flag 1: field = truth).
ast_true(v) == v \in {"yes", "true", "y", "t", "1", "on"}

\* The option handlers: OPT_BOOL_T stores ast_true(value), OPT_STRINGFIELD_T
\* stores the text.
OptionValue(name, v) ==
  IF name \in {"loguniqueid", "loguserfield"} THEN ast_true(v) ELSE v

\* Contents of the [global] section of cdr_amqp.conf that the life-cycle
\* thread may find on disk: a partial map from option name to text.
RawConfigs ==
  { [k \in {} |-> ""],
    [loguniqueid |-> "yes", loguserfield |-> "on", connection |-> "c1",
     queue |-> "q1", exchange |-> "x1"] }

\* The global section without aco_set_defaults: as ao2_alloc zeroed it.
conf_global_zeroed ==
  [loguniqueid |-> FALSE, loguserfield |-> FALSE, connection |-> "",
   queue |-> "", exchange |-> "", amqp |-> NULL]

\* struct cdr_amqp_global_conf as conf_global_create leaves it: zeroed by
\* ao2_alloc (amqp = NULL), then aco_set_defaults.
conf_global_create ==
  [loguniqueid |-> OptionValue("loguniqueid", OptionDefaults.loguniqueid),
   loguserfield |-> OptionValue("loguserfield", OptionDefaults.loguserfield),
   connection |-> OptionValue("connection", OptionDefaults.connection),
   queue |-> OptionValue("queue", OptionDefaults.queue),
   exchange |-> OptionValue("exchange", OptionDefaults.exchange),
   amqp |-> NULL]

\* Processing the [global] category: every option present in the file is
\* written into the pending object, the others keep their defaults.
ProcessCategory(g, raw) ==
  [k \in DOMAIN g |->
     IF k \in DOMAIN raw THEN OptionValue(k, raw[k]) ELSE g[k]]

\* Memory of an object before conf_alloc returned it / the zero page.
FreeGlobal ==
  [loguniqueid |-> FALSE, loguserfield |-> FALSE, connection |-> "",
   queue |-> "", exchange |-> "", amqp |-> NULL]

(* ------------------------------------------------------------- variables *)

VARIABLES
  confs,      \* AO2_GLOBAL_OBJ_STATIC(confs): the installed object or NULL
  snap,       \* the cdr_amqp_conf objects: state, refs, global section
  hnd,        \* the connection references ast_amqp_get_connection returned
  ctl,        \* the module life-cycle thread
  acoInit,    \* cfg_info.internal is set (aco_info_init .. aco_info_destroy)
  registered, \* amqp_cdr_log is registered as a CDR backend
  log,        \* the CDR threads
  crashed     \* the process died on an invalid memory access

vars == <<confs, snap, hnd, ctl, acoInit, registered, log, crashed>>

(* ----------------------------------------------------- reference counting *)

\* ao2_cleanup(global->amqp) in conf_global_dtor: drop the connection
\* reference; the connection object is released when the count reaches 0.
conf_global_dtor(H, h) ==
  IF h = NULL THEN H
  ELSE IF H[h].refs > 1 THEN [H EXCEPT ![h].refs = @ - 1]
  ELSE [H EXCEPT ![h].refs = 0, ![h].released = @ + 1]

\* Memory that never held an object, and memory of a destroyed one.
FreeConf == [state |-> "free", refs |-> 0, global |-> FreeGlobal, installed |-> FALSE]
DeadConf == [state |-> "destroyed", refs |-> 0, global |-> FreeGlobal, installed |-> FALSE]

\* The allocator hands out the places in order.
HasFree(S) == \E s \in DOMAIN S : S[s].state = "free"
FirstFree(S) ==
  CHOOSE s \in DOMAIN S :
    S[s].state = "free" /\ \A r \in DOMAIN S : S[r].state = "free" => s <= r

\* conf_dtor: ao2_cleanup(conf->global); the global section has the single
\* reference conf_global_create returned, so its destructor runs here
\* (connection reference dropped, string fields freed) and the memory of
\* the object goes back to the allocator.
conf_dtor(S, H, s) ==
  [snap |-> [S EXCEPT ![s] = [DeadConf EXCEPT !.installed = S[s].installed]],
   hnd |-> conf_global_dtor(H, S[s].global.amqp)]

\* ao2_cleanup(conf) / ao2_ref(conf, -1) on a cdr_amqp_conf pointer.
ao2_cleanup(S, H, s) ==
  IF s = NULL THEN [snap |-> S, hnd |-> H]
  ELSE IF S[s].refs > 1 THEN [snap |-> [S EXCEPT ![s].refs = @ - 1], hnd |-> H]
  ELSE conf_dtor(S, H, s)

\* ao2_bump / ao2_global_obj_ref on an object pointer.
ao2_bump(S, s) ==
  IF s = NULL THEN S ELSE [S EXCEPT ![s].refs = @ + 1]

(* ------------------------------------------------------------------ Init *)

\* Texts are pairs <<what, whose>>; this one is not valid UTF-8.
NotUtf8 == <<"\\xff", "">>

\* The struct ast_cdr the host hands to thread t (read-only here).
CdrOf(t) ==
  [clid |-> "\"Alice\" <100>", src |-> "100", dst |-> "200", dcontext |-> "default",
   channel |-> "PJSIP/100", dstchannel |-> "PJSIP/200", lastapp |-> "Dial",
   lastdata |-> "PJSIP/200", start |-> 10, answer |-> 15, end |-> 40,
   duration |-> 30, billsec |-> 25, disposition |-> "AST_CDR_ANSWERED",
   accountcode |-> "acc", amaflags |-> "AST_AMA_DOCUMENTATION",
   peeraccount |-> "peer", linkedid |-> <<"linkedid", t>>,
   uniqueid |-> <<"uniqueid", t>>,
   userfield |-> IF t = "t2" THEN NotUtf8 ELSE <<"userfield", t>>]

\* A CDR thread outside amqp_cdr_log; cdr is the record of the call it is
\* handed.
IdleLog(cdr) ==
  [pc |-> "idle", cdr |-> cdr, conf |-> NULL, doc |-> <<>>, str |-> <<>>, result |-> "none",
   pubs |-> 0, call |-> {}, jsonOk |-> FALSE, strOk |-> FALSE, res |-> {},
   acq |-> FreeGlobal, ub |-> FALSE, wild |-> FreeGlobal,
   useUid |-> {}, useUf |-> {}, useAddr |-> {}, lock |-> FALSE]

IdleCtl ==
  [pc |-> "unloaded", reload |-> FALSE, pending |-> NULL, status |-> "OK",
   conf |-> NULL, ret |-> "none", op |-> "none",
   startConfs |-> NULL, startGlobal |-> FreeGlobal, lookup |-> "none",
   got |-> NULL, raw |-> <<>>]

Init ==
  /\ confs = NULL
  /\ snap = [s \in Snaps |-> FreeConf]
  /\ hnd = [h \in Handles |-> [refs |-> 0, released |-> 0]]
  /\ ctl = IdleCtl
  /\ acoInit = FALSE
  /\ registered = FALSE
  /\ log = [t \in Loggers |-> IdleLog(CdrOf(t))]
  /\ crashed = FALSE

(* ------------------------------------------------- the life-cycle thread *)

\* The lock of the holder `confs`. ao2_global_obj_ref takes it for reading
\* around the copy of the pointer and the ao2_ref(+1), and
\* ao2_global_obj_replace_unref / ao2_global_obj_release take it for writing
\* around the exchange of the pointer; each gives it back before it
\* returns, so the critical section is one step here. The configuration
\* objects themselves have no lock (AO2_ALLOC_OPT_LOCK_NOLOCK). A CDR
\* thread that is between two steps with log[t].lock set holds the lock
\* for reading, and a writer has to wait for it.
StoreReadLocked == \E t \in Loggers : log[t].lock

GlobalOf(S, s) == IF s = NULL THEN FreeGlobal ELSE S[s].global

\* Entering load_config(reload): what the thread remembers of the store.
EnterLoadConfig(isReload, opName) ==
  [IdleCtl EXCEPT !.pc = "process", !.reload = isReload, !.op = opName,
                  !.startConfs = confs, !.startGlobal = GlobalOf(snap, confs)]

\* load_module up to the call of load_config(0): aco_info_init and the five
\* aco_option_register calls.
load_module ==
  /\ ctl.pc = "unloaded"
  /\ ~crashed
  /\ \E ok \in BOOLEAN :
       IF ok
       THEN /\ acoInit' = TRUE
            /\ ctl' = EnterLoadConfig(FALSE, "load")
       ELSE /\ acoInit' = FALSE
            /\ ctl' = [IdleCtl EXCEPT !.pc = "return", !.op = "load", !.ret = "failure"]
  /\ UNCHANGED <<confs, snap, hnd, registered, log, crashed>>

\* reload_module: load_config(1).
reload_module ==
  /\ ctl.pc = "loaded"
  /\ ~crashed
  /\ ctl' = EnterLoadConfig(TRUE, "reload")
  /\ UNCHANGED <<confs, snap, hnd, acoInit, registered, log, crashed>>

\* aco_process_config, first part: an uninitialised aco_info is an error;
\* otherwise the pending object comes from conf_alloc, which returns NULL
\* when the allocation fails.
conf_alloc ==
  /\ ctl.pc = "process"
  /\ ~crashed
  /\ \E ok \in BOOLEAN :
       IF acoInit /\ ok /\ HasFree(snap)
       THEN /\ snap' = [snap EXCEPT ![FirstFree(snap)] =
                          [state |-> "alive", refs |-> 1,
                           global |-> conf_global_create, installed |-> FALSE]]
            /\ ctl' = [ctl EXCEPT !.pc = "parse", !.pending = FirstFree(snap)]
       ELSE /\ ctl' = [ctl EXCEPT !.pc = "load_config", !.status = "ERROR"]
            /\ UNCHANGED snap
  /\ UNCHANGED <<confs, hnd, acoInit, registered, log, crashed>>

\* aco_process_config, the file loop: the file is missing or invalid
\* (ERROR), unchanged since the last load (reload only: UNCHANGED), or is
\* parsed into the pending object.
process_file ==
  /\ ctl.pc = "parse"
  /\ ~crashed
  /\ \/ /\ ctl' = [ctl EXCEPT !.pc = "end", !.status = "ERROR"]
        /\ UNCHANGED snap
     \/ /\ ctl.reload
        /\ ctl' = [ctl EXCEPT !.pc = "end", !.status = "UNCHANGED"]
        /\ UNCHANGED snap
     \/ \E raw \in RawConfigs :
          /\ snap' = [snap EXCEPT ![ctl.pending].global = ProcessCategory(@, raw)]
          /\ ctl' = [ctl EXCEPT !.pc = "pre_apply", !.status = "OK", !.raw = raw]
  /\ UNCHANGED <<confs, hnd, acoInit, registered, log, crashed>>

\* setup_amqp without the check of the connection: it returns 0 whether or
\* not ast_amqp_get_connection found one.
setup_amqp_unchecked ==
  /\ ctl.pc = "pre_apply"
  /\ ~crashed
  /\ LET conf == ctl.pending
     IN \E found \in BOOLEAN :
          IF found
          THEN /\ hnd' = [hnd EXCEPT ![conf].refs = 1]
               /\ snap' = [snap EXCEPT ![conf].global.amqp = conf]
               /\ ctl' = [ctl EXCEPT !.pc = "apply", !.lookup = "ok", !.got = conf]
          ELSE /\ hnd' = hnd
               /\ snap' = [snap EXCEPT ![conf].global.amqp = NULL]
               /\ ctl' = [ctl EXCEPT !.pc = "apply", !.lookup = "absent"]
  /\ UNCHANGED <<confs, acoInit, registered, log, crashed>>

\* setup_amqp that keeps the connection reference of the installed object
\* when the connection name has not changed, instead of asking for one.
setup_amqp_reuse ==
  /\ ctl.pc = "pre_apply"
  /\ ~crashed
  /\ LET conf == ctl.pending
         same == confs # NULL
                 /\ snap[confs].global.connection = snap[conf].global.connection
     IN \E found \in BOOLEAN :
          IF same
          THEN /\ hnd' = [hnd EXCEPT ![snap[confs].global.amqp].refs = @ + 1]
               /\ snap' = [snap EXCEPT ![conf].global.amqp = snap[confs].global.amqp]
               /\ ctl' = [ctl EXCEPT !.pc = "apply", !.lookup = "ok",
                                     !.got = snap[confs].global.amqp]
          ELSE IF found
          THEN /\ hnd' = [hnd EXCEPT ![conf].refs = 1]
               /\ snap' = [snap EXCEPT ![conf].global.amqp = conf]
               /\ ctl' = [ctl EXCEPT !.pc = "apply", !.lookup = "ok", !.got = conf]
          ELSE /\ hnd' = hnd
               /\ snap' = [snap EXCEPT ![conf].global.amqp = NULL]
               /\ ctl' = [ctl EXCEPT !.pc = "end", !.status = "ERROR",
                                     !.lookup = "absent"]
  /\ UNCHANGED <<confs, acoInit, registered, log, crashed>>

\* setup_amqp that works on the installed object (ao2_global_obj_ref(confs))
\* when there is one, instead of the pending object.
setup_amqp_installed ==
  /\ ctl.pc = "pre_apply"
  /\ ~crashed
  /\ LET conf == IF confs # NULL THEN confs ELSE ctl.pending
         H0 == conf_global_dtor(hnd, snap[conf].global.amqp)
     IN \E found \in BOOLEAN :
          IF found
          THEN /\ hnd' = [H0 EXCEPT ![ctl.pending].refs = 1]
               /\ snap' = [snap EXCEPT ![conf].global.amqp = ctl.pending]
               /\ ctl' = [ctl EXCEPT !.pc = "apply", !.lookup = "ok",
                                     !.got = ctl.pending]
          ELSE /\ hnd' = H0
               /\ snap' = [snap EXCEPT ![conf].global.amqp = NULL]
               /\ ctl' = [ctl EXCEPT !.pc = "end", !.status = "ERROR",
                                     !.lookup = "absent"]
  /\ UNCHANGED <<confs, acoInit, registered, log, crashed>>

\* setup_amqp, the pre_apply_config callback: works on the pending object.
\* The reference held before (NULL in a new object) is dropped and a new one
\* requested; without a connection the configuration is refused.
setup_amqp ==
  /\ ctl.pc = "pre_apply"
  /\ ~crashed
  /\ LET conf == ctl.pending
         H0 == IF conf = NULL THEN hnd
               ELSE conf_global_dtor(hnd, snap[conf].global.amqp)
     IN IF conf = NULL
        THEN /\ ctl' = [ctl EXCEPT !.pc = "apply"]
             /\ UNCHANGED <<snap, hnd>>
        ELSE \E found \in BOOLEAN :
               IF found
               THEN /\ hnd' = [H0 EXCEPT ![conf].refs = 1]
                    /\ snap' = [snap EXCEPT ![conf].global.amqp = conf]
                    /\ ctl' = [ctl EXCEPT !.pc = "apply", !.lookup = "ok",
                                          !.got = conf]
               ELSE /\ hnd' = H0
                    /\ snap' = [snap EXCEPT ![conf].global.amqp = NULL]
                    /\ ctl' = [ctl EXCEPT !.pc = "end", !.status = "ERROR",
                                          !.lookup = "absent"]
  /\ UNCHANGED <<confs, acoInit, registered, log, crashed>>

\* apply_config: ao2_global_obj_replace_unref(confs, pending). The holder
\* takes its own reference to the pending object and drops the one it had.
apply_config ==
  /\ ctl.pc = "apply"
  /\ ~crashed
  /\ ~StoreReadLocked
  /\ LET S1 == [ao2_bump(snap, ctl.pending) EXCEPT ![ctl.pending].installed = TRUE]
         R == ao2_cleanup(S1, hnd, confs)
     IN /\ confs' = ctl.pending
        /\ snap' = R.snap
        /\ hnd' = R.hnd
  /\ ctl' = [ctl EXCEPT !.pc = "end"]
  /\ UNCHANGED <<acoInit, registered, log, crashed>>

\* aco_process_config, label end: ao2_cleanup(pending); pending = NULL.
process_end ==
  /\ ctl.pc = "end"
  /\ ~crashed
  /\ LET R == ao2_cleanup(snap, hnd, ctl.pending)
     IN /\ snap' = R.snap
        /\ hnd' = R.hnd
  /\ ctl' = [ctl EXCEPT !.pc = "load_config", !.pending = NULL, !.raw = <<>>]
  /\ UNCHANGED <<confs, acoInit, registered, log, crashed>>

\* The caller of load_config sees its result: reload_module returns it,
\* load_module declines on failure and goes on to register on success.
LoadConfigReturn(c, ok) ==
  IF c.reload
  THEN [c EXCEPT !.pc = "return", !.conf = NULL, !.ret = IF ok THEN "ok" ELSE "fail"]
  ELSE IF ok THEN [c EXCEPT !.pc = "register", !.conf = NULL]
  ELSE [c EXCEPT !.pc = "return", !.conf = NULL, !.ret = "decline"]

\* load_config after aco_process_config: ERROR returns -1; OK and UNCHANGED
\* go on to take a reference to the installed object.
load_config ==
  /\ ctl.pc = "load_config"
  /\ ~crashed
  /\ IF ctl.status = "ERROR"
     THEN /\ ctl' = LoadConfigReturn(ctl, FALSE)
          /\ UNCHANGED snap
     ELSE /\ ctl' = [ctl EXCEPT !.pc = "check", !.conf = confs]
          /\ snap' = ao2_bump(snap, confs)
  /\ UNCHANGED <<confs, hnd, acoInit, registered, log, crashed>>

\* load_config: the check of the reference and the return, where the
\* RAII_VAR releases the reference.
load_config_check ==
  /\ ctl.pc = "check"
  /\ ~crashed
  /\ LET R == ao2_cleanup(snap, hnd, ctl.conf)
     IN /\ snap' = R.snap
        /\ hnd' = R.hnd
  /\ ctl' = LoadConfigReturn(ctl, ctl.conf # NULL)
  /\ UNCHANGED <<confs, acoInit, registered, log, crashed>>

\* load_module: ast_cdr_register.
cdr_register ==
  /\ ctl.pc = "register"
  /\ ~crashed
  /\ \E ok \in BOOLEAN :
       IF ok
       THEN /\ registered' = TRUE
            /\ ctl' = [ctl EXCEPT !.pc = "return", !.ret = "success"]
       ELSE /\ ctl' = [ctl EXCEPT !.pc = "return", !.ret = "failure"]
            /\ UNCHANGED registered
  /\ UNCHANGED <<confs, snap, hnd, acoInit, log, crashed>>

\* unload_module: aco_info_destroy(&cfg_info).
unload_module ==
  /\ ctl.pc = "loaded"
  /\ ~crashed
  /\ acoInit' = FALSE
  /\ ctl' = [IdleCtl EXCEPT !.pc = "release", !.op = "unload",
                             !.startConfs = confs,
                             !.startGlobal = GlobalOf(snap, confs)]
  /\ UNCHANGED <<confs, snap, hnd, registered, log, crashed>>

\* The release that drops the reference of the holder and leaves the
\* pointer in it.
global_obj_release_keep ==
  /\ ctl.pc = "release"
  /\ ~crashed
  /\ ~StoreReadLocked
  /\ LET R == ao2_cleanup(snap, hnd, confs)
     IN /\ snap' = R.snap
        /\ hnd' = R.hnd
  /\ confs' = confs
  /\ ctl' = [ctl EXCEPT !.pc = "unregister"]
  /\ UNCHANGED <<acoInit, registered, log, crashed>>

\* unload_module: ao2_global_obj_release(confs).
global_obj_release ==
  /\ ctl.pc = "release"
  /\ ~crashed
  /\ ~StoreReadLocked
  /\ LET R == ao2_cleanup(snap, hnd, confs)
     IN /\ snap' = R.snap
        /\ hnd' = R.hnd
  /\ confs' = NULL
  /\ ctl' = [ctl EXCEPT !.pc = "unregister"]
  /\ UNCHANGED <<acoInit, registered, log, crashed>>

\* unload_module: ast_cdr_unregister, which the host may refuse; the module
\* then stays loaded and registered. It comes after the release of confs,
\* so calls of amqp_cdr_log can start in between.
cdr_unregister ==
  /\ ctl.pc = "unregister"
  /\ ~crashed
  /\ \E ok \in BOOLEAN :
       IF ok
       THEN /\ registered' = FALSE
            /\ ctl' = [ctl EXCEPT !.pc = "return", !.ret = "ok"]
       ELSE /\ ctl' = [ctl EXCEPT !.pc = "return", !.ret = "fail"]
            /\ UNCHANGED registered
  /\ UNCHANGED <<confs, snap, hnd, acoInit, log, crashed>>

\* The entry point returns to the host: the module is loaded after a
\* successful load, after any reload and after a refused unload.
module_return ==
  /\ ctl.pc = "return"
  /\ ~crashed
  /\ ctl' = [IdleCtl EXCEPT !.pc =
               IF \/ ctl.op = "load" /\ ctl.ret = "success"
                  \/ ctl.op = "reload"
                  \/ ctl.op = "unload" /\ ctl.ret = "fail"
               THEN "loaded" ELSE "unloaded"]
  /\ UNCHANGED <<confs, snap, hnd, acoInit, registered, log, crashed>>

Lifecycle ==
  \/ load_module
  \/ reload_module
  \/ conf_alloc
  \/ process_file
  \/ setup_amqp
  \/ apply_config
  \/ process_end
  \/ load_config
  \/ load_config_check
  \/ cdr_register
  \/ unload_module
  \/ global_obj_release
  \/ cdr_unregister
  \/ module_return

(* ------------------------------------------------------- the CDR threads *)

\* A NULL struct ast_json pointer.
JsonNull == <<>>

\* ast_json_string_create: the JSON string, or NULL for text that is not
\* valid UTF-8.
ast_json_string_create(v) == IF v = NotUtf8 THEN JsonNull ELSE <<"string", v>>

\* The disposition written as the enum code it is, not as its name.
ast_cdr_disp2code(d) == d

\* ast_cdr_disp2str.
ast_cdr_disp2str(d) ==
  CASE d = "AST_CDR_NULL" -> "NO ANSWER"
    [] d = "AST_CDR_NOANSWER" -> "NO ANSWER"
    [] d = "AST_CDR_FAILED" -> "FAILED"
    [] d = "AST_CDR_BUSY" -> "BUSY"
    [] d = "AST_CDR_ANSWERED" -> "ANSWERED"
    [] d = "AST_CDR_CONGESTION" -> "CONGESTION"
    [] OTHER -> "UNKNOWN"

\* ast_channel_amaflags2string.
ast_channel_amaflags2string(f) ==
  CASE f = "AST_AMA_OMIT" -> "OMIT"
    [] f = "AST_AMA_BILLING" -> "BILLING"
    [] f = "AST_AMA_DOCUMENTATION" -> "DOCUMENTATION"
    [] OTHER -> "Unknown"

\* ast_json_timeval: the time as a JSON string.
ast_json_timeval(tv) == <<"timeval", tv>>

\* The ast_json_pack call: an object of the eighteen fixed members, in the
\* order of the format string.
ast_json_pack(cdr) ==
  << <<"clid", cdr.clid>>, <<"src", cdr.src>>, <<"dst", cdr.dst>>,
     <<"dcontext", cdr.dcontext>>,
     <<"channel", cdr.channel>>, <<"dstchannel", cdr.dstchannel>>,
     <<"lastapp", cdr.lastapp>>, <<"lastdata", cdr.lastdata>>,
     <<"start", ast_json_timeval(cdr.start)>>,
     <<"answer", ast_json_timeval(cdr.answer)>>,
     <<"end", ast_json_timeval(cdr.end)>>, <<"durationsec", cdr.duration>>,
     <<"billsec", cdr.billsec>>,
     <<"disposition", ast_cdr_disp2str(cdr.disposition)>>,
     <<"accountcode", cdr.accountcode>>,
     <<"amaflags", ast_channel_amaflags2string(cdr.amaflags)>>,
     <<"peeraccount", cdr.peeraccount>>, <<"linkedid", cdr.linkedid>> >>

\* ast_json_object_set(json, key, value): replaces the member or appends
\* it; with a NULL value it fails and leaves the object as it was.
ast_json_object_set(doc, key, value) ==
  IF value = JsonNull THEN doc
  ELSE IF \E i \in 1..Len(doc) : doc[i][1] = key
  THEN [i \in 1..Len(doc) |-> IF doc[i][1] = key THEN <<key, value>> ELSE doc[i]]
  ELSE Append(doc, <<key, value>>)

\* ast_json_dump_string: the text of the object, member after member.
RECURSIVE ast_json_dump_string(_)
ast_json_dump_string(doc) ==
  IF doc = <<>> THEN <<>>
  ELSE <<doc[1][1], ":", doc[1][2]>> \o ast_json_dump_string(Tail(doc))

\* The amqp_basic_properties_t of every message.
props ==
  [flags |-> {"AMQP_BASIC_DELIVERY_MODE_FLAG", "AMQP_BASIC_CONTENT_TYPE_FLAG"},
   delivery_mode |-> 2, content_type |-> "application/json"]

\* A return statement of amqp_cdr_log: the value is fixed, the RAII_VAR
\* cleanups have yet to run.
Return(t, value, extra) ==
  log' = [log EXCEPT ![t] = [extra EXCEPT !.pc = "return", !.result = value]]

\* Leaving amqp_cdr_log without the cleanup of conf: the reference stays.
cdr_log_return_leak(t) ==
  /\ log[t].pc = "return"
  /\ ~crashed
  /\ log' = [log EXCEPT ![t] = IdleLog(log[t].cdr)]
  /\ UNCHANGED <<confs, snap, hnd, ctl, acoInit, registered, crashed>>

\* Leaving amqp_cdr_log: the RAII_VARs free str and json and release the
\* reference to the configuration object; the host has the result.
cdr_log_return(t) ==
  /\ log[t].pc = "return"
  /\ ~crashed
  /\ LET R == ao2_cleanup(snap, hnd, log[t].conf)
     IN /\ snap' = R.snap
        /\ hnd' = R.hnd
  /\ log' = [log EXCEPT ![t] = IdleLog(log[t].cdr)]
  /\ UNCHANGED <<confs, ctl, acoInit, registered, crashed>>

\* The pointer of the holder copied without taking a reference.
cdr_log_ref_unowned(t) ==
  /\ log[t].pc = "idle"
  /\ ~crashed
  /\ registered
  /\ log' = [log EXCEPT ![t] =
               [IdleLog(log[t].cdr) EXCEPT !.pc = "pack", !.conf = confs,
                               !.acq = GlobalOf(snap, confs)]]
  /\ UNCHANGED <<confs, snap, hnd, ctl, acoInit, registered, crashed>>

\* amqp_cdr_log is called by the host for a finished call and takes its
\* reference: conf = ao2_global_obj_ref(confs). The ast_assert that follows
\* compiles to nothing in a production build.
cdr_log_ref(t) ==
  /\ log[t].pc = "idle"
  /\ ~crashed
  /\ registered
  /\ log' = [log EXCEPT ![t] =
               [IdleLog(log[t].cdr) EXCEPT !.pc = "pack", !.conf = confs,
                               !.acq = GlobalOf(snap, confs)]]
  /\ snap' = ao2_bump(snap, confs)
  /\ UNCHANGED <<confs, hnd, ctl, acoInit, registered, crashed>>

\* json = ast_json_pack(...); if (!json) return -1.
cdr_log_pack(t) ==
  /\ log[t].pc = "pack"
  /\ ~crashed
  /\ \E ok \in BOOLEAN :
       IF ok
       THEN log' = [log EXCEPT ![t].pc = "uniqueid", ![t].jsonOk = TRUE,
                               ![t].doc = ast_json_pack(log[t].cdr)]
       ELSE Return(t, "fail", log[t])
  /\ UNCHANGED <<confs, snap, hnd, ctl, acoInit, registered, crashed>>

\* What an access through a NULL conf pointer may find at the address: the
\* content does not change between the reads of one call.
Garbage ==
  { FreeGlobal, [FreeGlobal EXCEPT !.loguniqueid = TRUE, !.loguserfield = TRUE] }

\* The fields read through the installed object instead of the reference
\* the thread took.
Deref_installed(t) ==
  IF confs # NULL THEN {snap[confs].global}
  ELSE IF log[t].conf # NULL THEN {snap[log[t].conf].global}
  ELSE IF log[t].ub THEN {log[t].wild}
  ELSE Garbage

\* conf->global as thread t sees it. Through a NULL conf the access is
\* invalid: unless the process dies on it (InvalidAccess), it yields what
\* the address holds.
Deref(t) ==
  IF log[t].conf # NULL THEN {snap[log[t].conf].global}
  ELSE IF log[t].ub THEN {log[t].wild}
  ELSE Garbage

\* The process dies on the access through a NULL conf pointer.
InvalidAccess(t) ==
  /\ log[t].conf = NULL
  /\ crashed' = TRUE
  /\ UNCHANGED log

\* if (conf->global->loguniqueid) ast_json_object_set(json, "uniqueid", ...).
\* The result of ast_json_object_set is not looked at.
cdr_log_uniqueid(t) ==
  /\ log[t].pc = "uniqueid"
  /\ ~crashed
  /\ \/ InvalidAccess(t)
     \/ \E g \in Deref(t) :
          /\ log' = [log EXCEPT
               ![t].pc = "userfield", ![t].useUid = {g.loguniqueid},
               ![t].ub = (log[t].conf = NULL),
               ![t].wild = IF log[t].conf = NULL THEN g ELSE @,
               ![t].doc = IF g.loguniqueid
                          THEN ast_json_object_set(@, "uniqueid",
                                 ast_json_string_create(log[t].cdr.uniqueid))
                          ELSE @]
          /\ UNCHANGED crashed
  /\ UNCHANGED <<confs, snap, hnd, ctl, acoInit, registered>>

\* if (conf->global->loguserfield) ast_json_object_set(json, "userfield", ...).
cdr_log_userfield(t) ==
  /\ log[t].pc = "userfield"
  /\ ~crashed
  /\ \/ InvalidAccess(t)
     \/ \E g \in Deref(t) :
          /\ log' = [log EXCEPT
               ![t].pc = "dump", ![t].useUf = {g.loguserfield},
               ![t].doc = IF g.loguserfield
                          THEN ast_json_object_set(@, "userfield",
                                 ast_json_string_create(log[t].cdr.userfield))
                          ELSE @]
          /\ UNCHANGED crashed
  /\ UNCHANGED <<confs, snap, hnd, ctl, acoInit, registered>>

\* The dump without its return: a NULL str goes on to the publish.
cdr_log_dump_unchecked(t) ==
  /\ log[t].pc = "dump"
  /\ ~crashed
  /\ \E ok \in BOOLEAN :
       log' = [log EXCEPT ![t].pc = "publish", ![t].strOk = ok,
                          ![t].str = IF ok THEN ast_json_dump_string(log[t].doc)
                                     ELSE <<>>]
  /\ UNCHANGED <<confs, snap, hnd, ctl, acoInit, registered, crashed>>

\* str = ast_json_dump_string(json); if (!str) return -1.
cdr_log_dump(t) ==
  /\ log[t].pc = "dump"
  /\ ~crashed
  /\ \E ok \in BOOLEAN :
       IF ok
       THEN log' = [log EXCEPT ![t].pc = "publish", ![t].strOk = TRUE,
                               ![t].str = ast_json_dump_string(log[t].doc)]
       ELSE Return(t, "fail", log[t])
  /\ UNCHANGED <<confs, snap, hnd, ctl, acoInit, registered, crashed>>

\* The arguments of ast_amqp_basic_publish as read through conf->global.
PublishArgs(g, body) ==
  [amqp |-> g.amqp, exchange |-> g.exchange, queue |-> g.queue,
   mandatory |-> 0, immediate |-> 0, props |-> props, body |-> body]

\* The publish made inside the critical section of the holder: the read
\* lock is taken before the call and kept until amqp_cdr_log leaves.
cdr_log_publish_locked(t) ==
  /\ log[t].pc = "publish"
  /\ ~crashed
  /\ \/ InvalidAccess(t)
     \/ \E g \in Deref(t) :
          /\ log' = [log EXCEPT
               ![t].pc = "inpublish", ![t].pubs = @ + 1, ![t].lock = TRUE,
               ![t].call = {PublishArgs(g, log[t].str)},
               ![t].useAddr = {<<g.amqp, g.exchange, g.queue>>}]
          /\ UNCHANGED crashed
  /\ UNCHANGED <<confs, snap, hnd, ctl, acoInit, registered>>

\* res = ast_amqp_basic_publish(conf->global->amqp, exchange, queue, ...):
\* the call is made. With conf == NULL the reads are invalid accesses.
cdr_log_publish(t) ==
  /\ log[t].pc = "publish"
  /\ ~crashed
  /\ \/ InvalidAccess(t)
     \/ \E g \in Deref(t) :
          /\ log' = [log EXCEPT
               ![t].pc = "inpublish", ![t].pubs = @ + 1,
               ![t].call = {PublishArgs(g, log[t].str)},
               ![t].useAddr = {<<g.amqp, g.exchange, g.queue>>}]
          /\ UNCHANGED crashed
  /\ UNCHANGED <<confs, snap, hnd, ctl, acoInit, registered>>

\* A failed publish that is tried again.
cdr_log_publish_retry(t) ==
  /\ log[t].pc = "inpublish"
  /\ ~crashed
  /\ \E res \in {0, -1} :
       IF res # 0
       THEN log' = [log EXCEPT ![t].pc = "publish", ![t].res = {res}]
       ELSE Return(t, "ok", [log[t] EXCEPT !.res = {res}])
  /\ UNCHANGED <<confs, snap, hnd, ctl, acoInit, registered, crashed>>

\* A failed publish that gives up the installed configuration and with it
\* the connection.
cdr_log_publish_teardown(t) ==
  /\ log[t].pc = "inpublish"
  /\ ~crashed
  /\ \E res \in {0, -1} :
       /\ Return(t, IF res # 0 THEN "fail" ELSE "ok", [log[t] EXCEPT !.res = {res}])
       /\ IF res # 0
          THEN LET R == ao2_cleanup(snap, hnd, confs)
               IN /\ snap' = R.snap
                  /\ hnd' = R.hnd
                  /\ confs' = NULL
          ELSE UNCHANGED <<confs, snap, hnd>>
  /\ UNCHANGED <<ctl, acoInit, registered, crashed>>

\* ast_amqp_basic_publish returns: anything but 0 is logged and amqp_cdr_log
\* returns -1; otherwise it returns 0.
cdr_log_publish_return(t) ==
  /\ log[t].pc = "inpublish"
  /\ ~crashed
  /\ \E res \in {0, -1} :
       Return(t, IF res # 0 THEN "fail" ELSE "ok", [log[t] EXCEPT !.res = {res}])
  /\ UNCHANGED <<confs, snap, hnd, ctl, acoInit, registered, crashed>>

amqp_cdr_log(t) ==
  \/ cdr_log_ref(t)
  \/ cdr_log_pack(t)
  \/ cdr_log_uniqueid(t)
  \/ cdr_log_userfield(t)
  \/ cdr_log_dump(t)
  \/ cdr_log_publish(t)
  \/ cdr_log_publish_return(t)
  \/ cdr_log_return(t)

Next ==
  \/ Lifecycle
  \/ \E t \in Loggers : amqp_cdr_log(t)

Spec == Init /\ [][Next]_vars

(* ------------------------------------------ the configuration on its own *)

\* Texts a [global] section may give to an option.
OptionTexts ==
  [loguniqueid |-> {"yes", "no", "maybe"}, loguserfield |-> {"on", "0", "maybe"},
   connection |-> {"c1"}, queue |-> {"q1"}, exchange |-> {"x1"}]

\* Every [global] section: any of the options, each with any of its texts.
AllRawConfigs ==
  UNION { {raw \in [set -> UNION {OptionTexts[k] : k \in set}] :
             \A k \in set : raw[k] \in OptionTexts[k]} :
          set \in SUBSET OptionNames }

\* aco_process_config, the file loop, for any [global] section on disk.
process_file_any ==
  /\ ctl.pc = "parse"
  /\ ~crashed
  /\ \E raw \in AllRawConfigs :
       /\ snap' = [snap EXCEPT ![ctl.pending].global = ProcessCategory(@, raw)]
       /\ ctl' = [ctl EXCEPT !.pc = "pre_apply", !.status = "OK", !.raw = raw]
  /\ UNCHANGED <<confs, hnd, acoInit, registered, log, crashed>>

\* Only the life-cycle thread runs, over every file.
ConfNext == Lifecycle \/ process_file_any

ConfSpec == Init /\ [][ConfNext]_vars

(* ------------------------------------------- the serializer on its own *)

\* enum ast_cdr_disposition, and a value outside it.
Dispositions ==
  {"AST_CDR_NOANSWER", "AST_CDR_NULL", "AST_CDR_FAILED", "AST_CDR_BUSY",
   "AST_CDR_ANSWERED", "AST_CDR_CONGESTION", "99"}

\* Records the host may hand to amqp_cdr_log: any disposition, an answered
\* or an unanswered call's durations, a user field that is or is not valid
\* UTF-8.
Records ==
  { [CdrOf("t1") EXCEPT !.disposition = d, !.duration = n[1], !.billsec = n[2],
                        !.userfield = u] :
      d \in Dispositions, n \in {<<30, 25>>, <<0, 0>>},
      u \in {<<"userfield", "t1">>, NotUtf8} }

\* cdr_amqp.conf files that set any of the two flags and nothing else.
FlagConfigs ==
  { [k \in on |-> "yes"] : on \in SUBSET {"loguniqueid", "loguserfield"} }

\* The module as load_module leaves it when it succeeds (object and
\* connection reference as conf_alloc, the file and setup_amqp made them),
\* for every choice of the flags in the file and of the record of t1.
SerInit ==
  LET first == FirstFree([s \in Snaps |-> FreeConf])
  IN /\ confs = first
     /\ \E raw \in FlagConfigs :
          snap = [s \in Snaps |->
                    IF s = first
                    THEN [state |-> "alive", refs |-> 1, installed |-> TRUE,
                          global |-> [ProcessCategory(conf_global_create, raw)
                                        EXCEPT !.amqp = first]]
                    ELSE FreeConf]
     /\ hnd = [h \in Handles |->
                [refs |-> IF h = first THEN 1 ELSE 0, released |-> 0]]
     /\ ctl = [IdleCtl EXCEPT !.pc = "loaded"]
     /\ acoInit = TRUE
     /\ registered = TRUE
     /\ \E c \in Records :
          log = [t \in Loggers |-> IdleLog(IF t = "t1" THEN c ELSE CdrOf(t))]
     /\ crashed = FALSE

\* Only the CDR threads run.
SerNext == \E t \in Loggers : amqp_cdr_log(t)

SerSpec == SerInit /\ [][SerNext]_vars

(* ----------------------------------------------------------- properties *)

InFlight(t) == log[t].pc # "idle"

\* The references to configuration object s that exist: the holder's, the
\* life-cycle thread's (pending, and the one load_config takes) and those
\* of the CDR threads inside amqp_cdr_log.
Holders(s) ==
  (IF confs = s THEN 1 ELSE 0)
  + (IF ctl.pending = s THEN 1 ELSE 0)
  + (IF ctl.conf = s THEN 1 ELSE 0)
  + Cardinality({t \in Loggers : log[t].conf = s})

\* The object is usable: not destroyed, and its connection reference not
\* given back.
Valid(s) ==
  /\ snap[s].state = "alive"
  /\ snap[s].refs >= 1
  /\ snap[s].global.amqp # NULL =>
       /\ hnd[snap[s].global.amqp].refs >= 1
       /\ hnd[snap[s].global.amqp].released = 0

\* C1. Reload safety: from the moment the connection lookup of a reload
\* fails until reload_module has returned, the holder still has the object
\* it had when the reload began, with the same fields and the same
\* connection reference, still valid; the candidate is not installed; and
\* the reload returns failure.
C1_ReloadSafety ==
  (ctl.op = "reload" /\ ctl.lookup = "absent") =>
    /\ confs = ctl.startConfs
    /\ GlobalOf(snap, confs) = ctl.startGlobal
    /\ confs # NULL => Valid(confs)
    /\ ctl.pending # NULL => ctl.pending # confs /\ ~snap[ctl.pending].installed
    /\ ctl.pc = "return" => ctl.ret = "fail"

\* A reload with an object installed has failed on the lookup and returned.
C1_Witness ==
  /\ ctl.op = "reload" /\ ctl.lookup = "absent"
  /\ ctl.pc = "return" /\ ctl.ret = "fail"
  /\ confs # NULL /\ snap[confs].global.amqp # NULL

\* C2. Snapshot consistency: every value a call of amqp_cdr_log has read
\* through its reference (loguniqueid, loguserfield, the connection, the
\* exchange and the queue of the publish call) is the value the object it
\* acquired had at the acquisition, whatever has been installed since.
C2_SnapshotConsistency ==
  \A t \in Loggers :
    log[t].conf # NULL =>
      /\ snap[log[t].conf].global = log[t].acq
      /\ \A v \in log[t].useUid : v = log[t].acq.loguniqueid
      /\ \A v \in log[t].useUf : v = log[t].acq.loguserfield
      /\ \A a \in log[t].useAddr :
           a = <<log[t].acq.amqp, log[t].acq.exchange, log[t].acq.queue>>
      /\ \A c \in log[t].call :
           /\ c.amqp = log[t].acq.amqp
           /\ c.exchange = log[t].acq.exchange
           /\ c.queue = log[t].acq.queue

\* A call has published with the fields of the object it acquired while an
\* object with other flags, addressing and connection is installed.
C2_Witness ==
  \E t \in Loggers :
    /\ log[t].pc = "return" /\ log[t].pubs = 1
    /\ log[t].conf # NULL /\ confs # NULL /\ confs # log[t].conf
    /\ snap[confs].global.loguniqueid # log[t].acq.loguniqueid
    /\ snap[confs].global.loguserfield # log[t].acq.loguserfield
    /\ snap[confs].global.queue # log[t].acq.queue
    /\ snap[confs].global.exchange # log[t].acq.exchange
    /\ snap[confs].global.amqp # log[t].acq.amqp

\* C3. Shared lifetime: a configuration object that the holder, the
\* life-cycle thread or a call of amqp_cdr_log still refers to is not
\* destroyed and its connection reference has not been given back.
C3_SharedLifetime ==
  \A s \in Snaps : Holders(s) > 0 => Valid(s) /\ snap[s].refs = Holders(s)

\* Two calls are inside the broker, each the only one to refer to its
\* object: a reload has replaced the first object and the unload has
\* dropped the second.
C3_Witness ==
  /\ log["t1"].pc = "inpublish" /\ log["t2"].pc = "inpublish"
  /\ log["t1"].conf # NULL /\ log["t2"].conf # NULL
  /\ log["t1"].conf # log["t2"].conf
  /\ confs = NULL /\ ctl.op = "unload"
  /\ snap[log["t1"].conf].refs = 1 /\ snap[log["t2"].conf].refs = 1

\* C4. ConfigUnavailable: a call of amqp_cdr_log that found the holder
\* empty returns failure at once: it makes no publish call, reads nothing
\* through its (NULL) reference, and the process survives it.
C4_ConfigUnavailable ==
  /\ ~crashed
  /\ \A t \in Loggers :
       (InFlight(t) /\ log[t].conf = NULL) =>
         /\ log[t].pubs = 0
         /\ ~log[t].ub
         /\ log[t].pc = "return" => log[t].result = "fail"

\* C5 (precondition). No call of amqp_cdr_log ever holds an object without
\* a connection: setup_amqp lets none be installed, so the case C5 speaks
\* of does not arise in any run.
C5_NoAcquiredObjectWithoutConnection ==
  \A t \in Loggers : log[t].conf # NULL => log[t].acq.amqp # NULL

\* C6 as stated. Handle refresh: a reload that returns success leaves the
\* holder with an object whose connection reference was obtained from
\* ast_amqp_get_connection during that reload and is not the one of the
\* object installed before.
C6_HandleRefreshAlways ==
  (ctl.op = "reload" /\ ctl.pc = "return" /\ ctl.ret = "ok") =>
    /\ confs # NULL
    /\ ctl.got # NULL
    /\ snap[confs].global.amqp = ctl.got
    /\ ctl.got # ctl.startGlobal.amqp

\* C6 amended. A reload that returns success after processing the file
\* (ACO_PROCESS_OK) has installed a new object whose connection reference
\* was obtained during that reload and is not the one installed before,
\* also when the connection name is unchanged; a reload that returns
\* success because the file is unchanged (ACO_PROCESS_UNCHANGED) has asked
\* for no connection and leaves the installed object and its reference.
C6_HandleRefresh ==
  (ctl.op = "reload" /\ ctl.pc = "return" /\ ctl.ret = "ok") =>
    /\ confs # NULL
    /\ ctl.status \in {"OK", "UNCHANGED"}
    /\ ctl.status = "OK" =>
         /\ confs # ctl.startConfs
         /\ ctl.lookup = "ok" /\ ctl.got # NULL
         /\ snap[confs].global.amqp = ctl.got
         /\ ctl.got # ctl.startGlobal.amqp
         /\ hnd[ctl.got].refs >= 1 /\ hnd[ctl.got].released = 0
    /\ ctl.status = "UNCHANGED" =>
         /\ ctl.lookup = "none" /\ ctl.got = NULL
         /\ confs = ctl.startConfs
         /\ snap[confs].global = ctl.startGlobal

\* A reload with the connection name unchanged has returned success with a
\* new connection reference in place of the one installed before.
C6_Witness ==
  /\ ctl.op = "reload" /\ ctl.pc = "return" /\ ctl.ret = "ok"
  /\ ctl.status = "OK"
  /\ ctl.startGlobal.amqp # NULL
  /\ confs # NULL
  /\ snap[confs].global.connection = ctl.startGlobal.connection
  /\ snap[confs].global.amqp # ctl.startGlobal.amqp

\* C7. Snapshot immutability: no step writes a field of an object that has
\* been installed; the object a step installs has never been installed
\* before and is not written by that step.
C7_Immutability ==
  [][ /\ \A s \in Snaps :
           (snap[s].installed /\ snap'[s].state = "alive") =>
             snap'[s].global = snap[s].global
      /\ (confs' # confs /\ confs' # NULL) =>
           /\ snap[confs'].state = "alive"
           /\ ~snap[confs'].installed
           /\ snap'[confs'].global = snap[confs'].global ]_vars

\* A reload has installed a second object, written before its install,
\* while a call still holds the first one, unchanged.
C7_Witness ==
  /\ ctl.op = "reload" /\ ctl.pc = "end" /\ ctl.status = "OK"
  /\ confs = ctl.pending /\ ctl.startConfs # NULL
  /\ snap[confs].global # ctl.startGlobal
  /\ \E t \in Loggers :
       /\ log[t].conf = ctl.startConfs
       /\ snap[log[t].conf].global = ctl.startGlobal

\* A call fixes a failure result / a failed call runs its cleanups.
FailStep(t) ==
  log[t].pc # "return" /\ log'[t].pc = "return" /\ log'[t].result = "fail"
FailCleanup(t) ==
  log[t].pc = "return" /\ log[t].result = "fail" /\ log'[t].pc = "idle"

\* C8. Failure isolation: the steps by which a call fails (on the encoding
\* or on the publish) and leaves leave the holder, the installed object and
\* its connection reference as they were and touch no other call; no call
\* in flight is ever unable to take its next step; and the result of a call
\* that published is that of its own broker call.
C8_FailureIsolation ==
  /\ [][ \A t \in Loggers :
           (FailStep(t) \/ FailCleanup(t)) =>
             /\ confs' = confs
             /\ ~crashed'
             /\ confs # NULL =>
                  /\ snap'[confs].state = "alive"
                  /\ snap'[confs].global = snap[confs].global
                  /\ hnd'[snap[confs].global.amqp] = hnd[snap[confs].global.amqp]
             /\ \A u \in Loggers \ {t} : log'[u] = log[u] ]_vars
  /\ [](\A u \in Loggers :
          /\ (InFlight(u) /\ ~crashed) => ENABLED amqp_cdr_log(u)
          /\ (log[u].pc = "return" /\ log[u].pubs = 1) =>
               log[u].result = (IF log[u].res = {0} THEN "ok" ELSE "fail"))

\* Two concurrent calls through the same object: the publish of one has
\* failed, that of the other has succeeded.
C8_Witness ==
  /\ log["t1"].pc = "return" /\ log["t1"].res = {-1} /\ log["t1"].result = "fail"
  /\ log["t2"].pc = "return" /\ log["t2"].res = {0} /\ log["t2"].result = "ok"
  /\ log["t1"].conf = log["t2"].conf /\ log["t1"].conf = confs /\ confs # NULL

\* C9. At-most-once: a call makes at most one publish call; once past the
\* publish statement it has made exactly one; after a failure of the broker
\* it returns failure with that one call made; and a call that has left
\* keeps no document, text or pending publish.
C9_AtMostOnce ==
  \A t \in Loggers :
    /\ log[t].pubs <= 1
    /\ log[t].pubs = Cardinality(log[t].call)
    /\ log[t].pc = "inpublish" => log[t].pubs = 1
    /\ (log[t].pc = "return" /\ log[t].strOk) => log[t].pubs = 1
    /\ (log[t].pc = "return" /\ log[t].res # {}) => log[t].pubs = 1
    /\ (log[t].pc = "return" /\ log[t].res = {-1}) => log[t].result = "fail"
    /\ log[t].pc = "idle" =>
         log[t].doc = <<>> /\ log[t].str = <<>> /\ log[t].call = {}

\* A call returns failure after its one publish call failed.
C9_Witness ==
  \E t \in Loggers :
    /\ log[t].pc = "return" /\ log[t].res = {-1}
    /\ log[t].result = "fail" /\ log[t].pubs = 1

C11_NoLockAcrossPublish ==
  /\ \A t \in Loggers : InFlight(t) => ~log[t].lock
  /\ (~crashed /\ \E t \in Loggers : log[t].pc = "inpublish") =>
       /\ ctl.pc = "apply" => ENABLED apply_config
       /\ ctl.pc = "release" => ENABLED global_obj_release
       /\ \A u \in Loggers :
            (log[u].pc = "idle" /\ registered) => ENABLED cdr_log_ref(u)

\* Both calls are inside the broker with the object installed before,
\* while a reload is about to install another one.
C11_Witness ==
  /\ \A t \in Loggers : log[t].pc = "inpublish" /\ log[t].conf = confs
  /\ confs # NULL
  /\ ctl.op = "reload" /\ ctl.pc = "apply" /\ ctl.pending # confs

\* C12. Initial-load failure declines activation: when load_module returns
\* after load_config(0) failed (aco_process_config reported an error, among
\* them the connection that setup_amqp did not get), it returns
\* AST_MODULE_LOAD_DECLINE, amqp_cdr_log is not registered and the holder
\* is empty; and it returns AST_MODULE_LOAD_SUCCESS only with an object in
\* the holder and amqp_cdr_log registered.
C12_InitialLoadFailure ==
  (ctl.op = "load" /\ ctl.pc = "return") =>
    /\ ctl.status = "ERROR" =>
         /\ ctl.ret = "decline"
         /\ ~registered
         /\ confs = NULL
    /\ ctl.ret = "success" => (confs # NULL /\ registered)

\* unload_module is past ao2_global_obj_release.
Released == ctl.op = "unload" /\ ctl.pc \in {"unregister", "return"}

\* This unload_module found the holder empty: an unload before it released
\* the holder and nothing has been installed since (the host calls
\* unload_module again only when ast_cdr_unregister refused the first).
SecondUnload == ctl.op = "unload" /\ ctl.startConfs = NULL

\* C13. Shutdown is idempotent: after the release of unload_module the
\* holder is empty and its reference to the object it had is given up (the
\* object lives on only through calls in flight, and is destroyed, its
\* connection reference given back once, when there are none); an
\* unload_module that finds the holder empty changes no object and no
\* reference count, ends in the state and with the result a single
\* unload_module ends with (0 and unregistered, or -1 and still
\* registered, as ast_cdr_unregister answers), and no connection reference
\* is ever given back twice.
C13_ShutdownIdempotent ==
  /\ [](Released =>
          /\ confs = NULL /\ ~acoInit
          /\ ctl.startConfs # NULL =>
               LET s == ctl.startConfs
                   users == Cardinality({t \in Loggers : log[t].conf = s})
               IN /\ snap[s].refs = users
                  /\ users = 0 =>
                       /\ snap[s].state = "destroyed"
                       /\ hnd[ctl.startGlobal.amqp].refs = 0
                       /\ hnd[ctl.startGlobal.amqp].released = 1
          /\ ctl.pc = "return" =>
               \/ ctl.ret = "ok" /\ ~registered
               \/ ctl.ret = "fail" /\ registered)
  /\ [](\A h \in Handles : hnd[h].released <= 1)
  /\ [][ (SecondUnload /\ ctl' # ctl) =>
           (confs' = confs /\ snap' = snap /\ hnd' = hnd) ]_vars

\* A second unload_module, after one that ast_cdr_unregister refused, has
\* returned 0 with the holder empty as the first left it.
C13_Witness ==
  /\ SecondUnload /\ ctl.pc = "return" /\ ctl.ret = "ok"
  /\ confs = NULL /\ ~registered
  /\ \E s \in Snaps : snap[s].state = "destroyed" /\ hnd[s].released = 1

\* Reading a JSON object: the keys, the member of a key, and the text of a
\* JSON string.
Keys(doc) == {doc[i][1] : i \in 1..Len(doc)}
Member(doc, key) == doc[CHOOSE i \in 1..Len(doc) : doc[i][1] = key][2]
IsJsonString(v) == v # JsonNull /\ Len(v) = 2 /\ v[1] = "string"
JsonText(v) == v[2]

\* The call has been through both optional members with a reference to an
\* object, so log[t].doc is the document it dumps and publishes.
DocBuilt(t) == log[t].conf # NULL /\ log[t].jsonOk /\ log[t].useUf # {}

\* C14. Optional-field omission: the document a call builds under the
\* object it acquired has the member uniqueid exactly when loguniqueid is
\* set, and then as a JSON string of cdr->uniqueid; it has the member
\* userfield exactly when loguserfield is set, and then as a JSON string of
\* cdr->userfield; a member whose flag is clear is not there at all.
C14_OptionalFields ==
  \A t \in Loggers :
    DocBuilt(t) =>
      /\ "uniqueid" \in Keys(log[t].doc) <=> log[t].acq.loguniqueid
      /\ "uniqueid" \in Keys(log[t].doc) =>
           /\ IsJsonString(Member(log[t].doc, "uniqueid"))
           /\ JsonText(Member(log[t].doc, "uniqueid")) = log[t].cdr.uniqueid
      /\ "userfield" \in Keys(log[t].doc) <=> log[t].acq.loguserfield
      /\ "userfield" \in Keys(log[t].doc) =>
           /\ IsJsonString(Member(log[t].doc, "userfield"))
           /\ JsonText(Member(log[t].doc, "userfield")) = log[t].cdr.userfield

\* The members of the ast_json_pack call, and the two optional ones.
RequiredKeys ==
  {"clid", "src", "dst", "dcontext", "channel", "dstchannel", "lastapp",
   "lastdata", "start", "answer", "end", "durationsec", "billsec",
   "disposition", "accountcode", "amaflags", "peeraccount", "linkedid"}
OptionalKeys == {"uniqueid", "userfield"}

\* The names of the dispositions as the CDR engine writes them.
DispositionName ==
  [d \in Dispositions |->
     CASE d = "AST_CDR_NOANSWER" -> "NO ANSWER"
       [] d = "AST_CDR_NULL" -> "NO ANSWER"
       [] d = "AST_CDR_FAILED" -> "FAILED"
       [] d = "AST_CDR_BUSY" -> "BUSY"
       [] d = "AST_CDR_ANSWERED" -> "ANSWERED"
       [] d = "AST_CDR_CONGESTION" -> "CONGESTION"
       [] OTHER -> "UNKNOWN"]

FieldDefaults ==
  [loguniqueid |-> FALSE, loguserfield |-> FALSE, connection |-> "",
   queue |-> "asterisk_cdr", exchange |-> ""]
TrueTexts == {"yes", "true", "y", "t", "1", "on"}

\* The pending object holds what the file loop made of the [global]
\* section ctl.raw (empty when no file was parsed).
Built == ctl.pending # NULL /\ ctl.pc \in {"pre_apply", "apply", "end"}

\* C16. Default addressing and flags: an object built from a file that
\* sets no option has exchange "", queue "asterisk_cdr", connection "" and
\* both flags clear; an option the file sets has the value of its text (a
\* flag is set exactly for a text ast_true accepts) and every option the
\* file does not set keeps its default; the object is installed with
\* these values.
C16_Defaults ==
  Built =>
    LET g == snap[ctl.pending].global
    IN /\ DOMAIN ctl.raw = {} =>
            /\ g.exchange = "" /\ g.queue = "asterisk_cdr" /\ g.connection = ""
            /\ ~g.loguniqueid /\ ~g.loguserfield
       /\ \A k \in OptionNames :
            IF k \notin DOMAIN ctl.raw THEN g[k] = FieldDefaults[k]
            ELSE IF k \in {"loguniqueid", "loguserfield"}
            THEN g[k] = (ctl.raw[k] \in TrueTexts)
            ELSE g[k] = ctl.raw[k]
       /\ (ctl.pc = "end" /\ ctl.status = "OK") =>
            confs = ctl.pending /\ snap[confs].global = g

\* A reload has installed an object whose file sets the exchange alone,
\* in place of one that had every default.
C16_Witness ==
  /\ Built /\ ctl.pc = "end" /\ ctl.status = "OK" /\ confs = ctl.pending
  /\ DOMAIN ctl.raw = {"exchange"}
  /\ snap[confs].global.exchange = "x1"
  /\ snap[confs].global.queue = "asterisk_cdr"
  /\ ctl.op = "reload" /\ ctl.startConfs # NULL
  /\ \A k \in OptionNames : ctl.startGlobal[k] = FieldDefaults[k]

\* C17. Registration implies configuration: whenever amqp_cdr_log is
\* registered with the CDR engine the holder has an installed, live
\* object; the step that registers is taken with an object installed, and
\* the step that empties the holder is taken only once amqp_cdr_log is no
\* longer registered.
C17_RegistrationImpliesConfiguration ==
  /\ [](registered =>
          confs # NULL /\ snap[confs].state = "alive" /\ snap[confs].installed)
  /\ [][ /\ (~registered /\ registered') => confs # NULL
         /\ (confs # NULL /\ confs' = NULL) => ~registered ]_vars

\* C18. Installed snapshots always have a handle: every object that is or
\* was installed and still exists has a connection reference, not given
\* back; the holder has only installed objects; so a call that acquired an
\* object finds conf->global->amqp set and publishes through it.
C18_InstalledHaveHandle ==
  /\ \A s \in Snaps :
       (snap[s].installed /\ snap[s].state = "alive") =>
         /\ snap[s].global.amqp # NULL
         /\ hnd[snap[s].global.amqp].refs >= 1
         /\ hnd[snap[s].global.amqp].released = 0
  /\ confs # NULL => (snap[confs].installed /\ snap[confs].state = "alive")
  /\ \A t \in Loggers :
       log[t].conf # NULL =>
         /\ snap[log[t].conf].installed /\ snap[log[t].conf].state = "alive"
         /\ log[t].acq.amqp # NULL
         /\ \A c \in log[t].call : c.amqp # NULL /\ c.amqp = log[t].acq.amqp

\* After a load and a successful reload, a further reload has failed; one
\* call is inside the broker with the connection of the object installed
\* first, the other with that of the object installed now.
C18_Witness ==
  /\ ctl.op = "reload" /\ ctl.pc = "return" /\ ctl.ret = "fail"
  /\ confs # NULL
  /\ \E t, u \in Loggers :
       /\ log[t].pc = "inpublish" /\ log[u].pc = "inpublish"
       /\ log[t].conf # NULL /\ log[t].conf # confs /\ log[u].conf = confs
       /\ \A c \in log[t].call : c.amqp = snap[log[t].conf].global.amqp
       /\ \A c \in log[u].call : c.amqp = snap[confs].global.amqp

\* Thread t takes its reference in this step.
Acquires(t) == log[t].pc = "idle" /\ log'[t].pc = "pack"

\* C19. Install visibility: a reload changes the holder in one step, from
\* the object installed before to the pending one, which leaves the calls
\* in flight and the object they hold as they were; a call that takes its
\* reference gets the object installed at that moment, with its flags,
\* addressing and connection, and publishes with them; and a call that
\* takes its reference while a reload is running gets an object.
C19_InstallVisibility ==
  /\ [][ (ctl.op = "reload" /\ confs' # confs) =>
           /\ confs' = ctl.pending /\ confs' # NULL
           /\ log' = log
           /\ \A t \in Loggers :
                log[t].conf # NULL =>
                  /\ snap'[log[t].conf].state = "alive"
                  /\ snap'[log[t].conf].global = log[t].acq ]_vars
  /\ [][ \A t \in Loggers :
           Acquires(t) =>
             /\ log'[t].conf = confs
             /\ log'[t].acq = GlobalOf(snap, confs)
             /\ ctl.op = "reload" => log'[t].conf # NULL ]_vars
  /\ [](\A t \in Loggers :
          log[t].conf # NULL =>
            \A c \in log[t].call :
              /\ c.amqp = log[t].acq.amqp
              /\ c.exchange = log[t].acq.exchange
              /\ c.queue = log[t].acq.queue)

\* C19 (restricted). The same for reloads that begin with an object in the
\* holder: the install is one step that leaves the earlier calls with
\* their object, and a call that takes its reference while such a reload
\* is running gets the object installed at that moment, never none.
C19_InstallVisibilityInstalled ==
  /\ [][ (ctl.op = "reload" /\ confs' # confs) =>
           /\ confs' = ctl.pending /\ confs' # NULL
           /\ log' = log
           /\ \A t \in Loggers :
                log[t].conf # NULL =>
                  /\ snap'[log[t].conf].state = "alive"
                  /\ snap'[log[t].conf].global = log[t].acq ]_vars
  /\ [][ \A t \in Loggers :
           Acquires(t) =>
             /\ log'[t].conf = confs
             /\ log'[t].acq = GlobalOf(snap, confs)
             /\ (ctl.op = "reload" /\ ctl.startConfs # NULL) =>
                  log'[t].conf # NULL ]_vars

\* No entry point of the module is running.
Quiescent ==
  /\ ctl.pc \in {"unloaded", "loaded"}
  /\ \A t \in Loggers : log[t].pc = "idle"

\* C20. No reference leak: the reference count of every configuration
\* object is the number of references that exist (the holder's, those of
\* load_config and aco_process_config, those of the calls in flight), and
\* an object exists exactly as long as there is one; so when no entry point
\* is running the installed object has count 1 and every other object that
\* was made is destroyed with count 0. A connection reference is counted
\* once by the object that has it and is given back once, when that object
\* is destroyed, never twice.
C20_NoReferenceLeak ==
  /\ \A s \in Snaps :
       /\ snap[s].refs = Holders(s)
       /\ snap[s].state = "alive" <=> Holders(s) > 0
       /\ (snap[s].state = "destroyed" /\ snap[s].installed) =>
            hnd[s].refs = 0 /\ hnd[s].released = 1
  /\ \A h \in Handles :
       /\ hnd[h].released <= 1
       /\ hnd[h].refs =
            Cardinality({s \in Snaps : snap[s].state = "alive"
                                       /\ snap[s].global.amqp = h})
       /\ hnd[h].released = 1 => hnd[h].refs = 0
  /\ Quiescent =>
       \A s \in Snaps :
         /\ snap[s].refs = (IF s = confs THEN 1 ELSE 0)
         /\ s # confs => snap[s].state # "alive"

\* No entry point is running; the object a reload replaced is destroyed
\* and its connection reference given back once, the installed object has
\* count 1.
C20_Witness ==
  /\ Quiescent /\ ctl.pc = "loaded"
  /\ confs # NULL /\ snap[confs].refs = 1
  /\ hnd[snap[confs].global.amqp].refs = 1
  /\ \E s \in Snaps \ {confs} :
       /\ snap[s].state = "destroyed" /\ snap[s].installed
       /\ hnd[s].released = 1

====
